---- MODULE Spec2Model ----
(***************************************************************************)
(* Verification model of the newspaper archiver: the StorageManager        *)
(* (dedup index, date-partitioned commit, export), the scrapeArticle retry *)
(* loop of NewspaperScraper, and the job orchestration of the HTTP server. *)
(* The repository holds several revisions of the same classes; the model   *)
(* carries the revision that runs as state (storageImpl, job.serverImpl).  *)
(***************************************************************************)
EXTENDS Integers, Sequences, FiniteSets, TLC

\* ------------------------------------------------------------------ bounds
\* Number of saveArticle calls explored on the storage API.
MaxCommits == 2
\* Number of POST /api/scrape jobs, one after the other.
MaxJobs == 2
\* Number of article links one discovery returns.
MaxLinks == 2
\* Number of downloadMedia calls explored on the MediaDownloader API.
MaxMediaCalls == 2
\* Number of articles acquired and committed with their media.
MaxMediaCommits == 1
\* Number of anchors on a listing page.
MaxAnchors == 4
\* Number of jobs followed to their end under fairness.
MaxLiveJobs == 1
\* Number of jobs that run at the same time.
MaxConcurrent == 2
\* Number of downloadFile calls of the SiteArchiver.
MaxDownloads == 3

\* ------------------------------------------------------- program constants
\* scrapeArticle: article.content.length < 100 is rejected.
MinContentLength == 100
\* config.retryAttempts and config.retryDelay (defaults of config.json).
retryAttempts == 3
retryDelay == 2000
\* sanitizeTitle: .substring(0, 60) in storage.js, .substring(0, 80) in the
\* revision with timestamp folders.
SlugCapHash == 60
SlugCapTime == 80

\* ---------------------------------------------------------------- strings
\* A JavaScript string is modelled as a tuple of one-character strings.
Min(S) == CHOOSE x \in S : \A y \in S : x <= y
Max(S) == CHOOSE x \in S : \A y \in S : x >= y

\* String.prototype.toLowerCase on the characters the titles use.
toLowerChar(c) ==
  CASE c = "A" -> "a"
    [] c = "B" -> "b"
    [] OTHER -> c

toLowerCase(s) == [i \in 1..Len(s) |-> toLowerChar(s[i])]

\* \s of the regular expressions and the characters trim() removes.
IsWhitespace(c) == c = " "

IsHyphen(c) == c = "-"

\* s without its leading and trailing characters of the class Strip.
stripEnds(s, Strip(_)) ==
  LET keep == {i \in 1..Len(s) : ~Strip(s[i])}
  IN  IF keep = {} THEN << >> ELSE SubSeq(s, Min(keep), Max(keep))

\* String.prototype.trim
trim(s) == stripEnds(s, IsWhitespace)

\* article.title.toLowerCase().trim()
normalizedTitle(title) == trim(toLowerCase(title))

\* .replace(/[^a-z0-9\s-]/g, '')
IsSlugChar(c) == c \in {"a", "b", "0", "1", " ", "-"}
removeSpecial(s) == SelectSeq(s, IsSlugChar)

\* .replace(/X+/g, '-'): every maximal run of characters of the class InRun
\* becomes one hyphen.
replaceRuns(s, InRun(_)) ==
  LET marked == [i \in 1..Len(s) |->
                   [c |-> s[i],
                    first |-> IF i = 1 THEN TRUE ELSE ~InRun(s[i - 1])]]
      kept == SelectSeq(marked, LAMBDA m : ~InRun(m.c) \/ m.first)
  IN  [i \in 1..Len(kept) |-> IF InRun(kept[i].c) THEN "-" ELSE kept[i].c]

\* .replace(/\s+/g, '-')
spacesToHyphen(s) == replaceRuns(s, IsWhitespace)

\* .replace(/-+/g, '-')
collapseHyphens(s) == replaceRuns(s, IsHyphen)

\* .substring(0, n)
substring0(s, n) == SubSeq(s, 1, IF Len(s) < n THEN Len(s) ELSE n)

\* .replace(/^-+|-+$/g, '')
stripHyphens(s) == stripEnds(s, IsHyphen)

Untitled == <<"u", "n", "t", "i", "t", "l", "e", "d">>

\* The revisions of StorageManager.
StorageImpls == {"storage.js", "part_005"}

SlugCap(impl) == IF impl = "storage.js" THEN SlugCapHash ELSE SlugCapTime

\* StorageManager.sanitizeTitle
sanitizeTitle(impl, title) ==
  LET cut == substring0(
               collapseHyphens(spacesToHyphen(removeSpecial(toLowerCase(title)))),
               SlugCap(impl))
      sanitized == stripHyphens(cut)
  IN  IF sanitized = << >> THEN Untitled ELSE sanitized

\* ------------------------------------------------------------------ inputs
URLs == {"u1", "u2", "u3"}

\* crypto md5(url).digest('hex').substring(0, 8): 32 bits of the digest, so
\* distinct URLs can share it; u1 and u3 stand for such a pair.
md5Prefix(url) ==
  CASE url = "u1" -> "h1"
    [] url = "u2" -> "h2"
    [] url = "u3" -> "h1"

TitleAb == <<"A", "b">>
TitleAbPadded == <<" ", "a", "b", " ">>
TitleA_B == <<"a", " ", "b">>
TitleA__B == <<"a", " ", " ", "b">>
TitleBang == <<"!">>
TitleQuery == <<"?">>

Titles ==
  {TitleAb, TitleAbPadded, TitleA_B, TitleA__B, TitleBang, TitleQuery}

\* A publishDate string as new Date(publishDate) reads it in local time:
\* valid or not, day of January 2024, hour/minute/second, milliseconds.
DateOf(day, h, mi, s, ms) ==
  [valid |-> TRUE, day |-> day, hms |-> <<h, mi, s>>, ms |-> ms]

InvalidDate == [valid |-> FALSE, day |-> 0, hms |-> <<0, 0, 0>>, ms |-> 0]
Midnight15 == DateOf(15, 0, 0, 0, 0)
Afternoon15 == DateOf(15, 14, 30, 22, 0)
Afternoon15Ms == DateOf(15, 14, 30, 22, 500)
Morning15 == DateOf(15, 9, 15, 0, 0)

Dates == {InvalidDate, Midnight15, Afternoon15, Afternoon15Ms, Morning15}

\* new Date(): the clock of the run.
Now == DateOf(16, 10, 0, 0, 0)

AllArticles == [url : URLs, title : Titles, publishDate : Dates]

\* The title cases (letter case, outer and inner whitespace) at one date:
\* the articles offered to the storage API.
DedupTitles == {TitleAb, TitleAbPadded, TitleA_B, TitleA__B}
DedupArticles ==
  {a \in AllArticles :
     /\ a.url \in {"u1", "u2"}
     /\ a.title \in DedupTitles
     /\ a.publishDate = Midnight15}

\* The date cases for two titles with one slug and two normalized forms,
\* and the two titles without any slug character at one date: the articles
\* committed when folder names are compared.
FolderArticles ==
  {a \in AllArticles :
     \/ a.title \in {TitleA_B, TitleA__B}
     \/ a.title \in {TitleBang, TitleQuery} /\ a.publishDate = Midnight15}

\* What extractContent can hand back, by its length: nothing, a 40-character
\* body, the 73-character 'No content extracted ...' sentinel, one character
\* under and exactly at the threshold, and a 500-character body.
SentinelLength == 73
ContentLengths == {0, 40, SentinelLength, 99, 100, 500}

\* extractArticleData: the article of one page load.
Extractions(url, titles, dates) ==
  [url : {url}, title : titles, publishDate : dates,
   contentLength : ContentLengths]

NoArticle ==
  [url |-> "", title |-> << >>, publishDate |-> InvalidDate,
   contentLength |-> 0]

\* ------------------------------------------------------------------- state
VARIABLES
  storageImpl,   \* which revision of StorageManager runs
  articles,      \* StorageManager.articles, the in-memory entry list
  index,         \* StorageManager.index = {urls, titles}
  indexFile,     \* index.json on disk, or MissingFile
  summaryFile,   \* the counts of summary.json on disk, or NoSummary
  folders,       \* entry folders that exist under articles/
  articleJson,   \* the articleData records held by the article.json files
  lastCall,      \* the StorageManager call that ran last and how it ended
  saveCalls,     \* number of saveArticle calls so far
  scrape,        \* the scrapeArticle call in progress or just returned
  job,           \* the POST /api/scrape job that runs or has just ended
  jobsStarted,   \* number of jobs started so far
  downloader,    \* the MediaDownloader in use and its downloadedHashes
  downloads,     \* per media URL, how many times a file was fetched and written
  tempDirs,      \* the staging folders that exist under media/temp
  tempFiles,     \* the files that exist in staging folders
  entryMedia,    \* the files that exist in the media/ folders of entries
  mediaFiles,    \* the manifest object returned by the last downloadMedia
  mediaCall,     \* the last MediaDownloader call, its references and outcome
  mediaCalls,    \* number of media calls so far
  discovery,     \* the last link discovery: revision, anchors, result
  concurrent,    \* jobs running at once, each with its StorageManager
  archiver       \* the SiteArchiver: downloadedFiles and its downloads

storeVars ==
  <<storageImpl, articles, index, indexFile, summaryFile, folders,
    articleJson, lastCall, saveCalls>>

jobVars == <<job, jobsStarted>>

mediaVars ==
  <<downloader, downloads, tempDirs, tempFiles, entryMedia, mediaFiles,
    mediaCall, mediaCalls>>

vars ==
  <<storeVars, scrape, jobVars, mediaVars, discovery, concurrent, archiver>>

EmptyIndex == [urls |-> {}, titles |-> {}]

\* index.json as loadIndex meets it: whether the file exists; what
\* JSON.parse makes of its text (top: "invalid" when it throws, else "null",
\* "scalar" or "object"); and for the urls and titles members of an object
\* their JSON type and what iterating the value yields (the elements of an
\* array, the characters of a string).
\* No index.json in the archive directory.
MissingFile ==
  [exists |-> FALSE, top |-> "invalid", urlsType |-> "absent", urls |-> {},
   titlesType |-> "absent", titles |-> {}, totalArticles |-> 0]

\* The JSON types a member of the parsed object can have.
MemberTypes == {"array", "absent", "null", "string", "number", "object"}

\* What a member of each type holds in the files explored: a list of one
\* URL or one title, or the string "ab".
MemberItems(member, type) ==
  IF type = "array"
  THEN (IF member = "urls" THEN {"u1"} ELSE {<<"a", "b">>})
  ELSE IF type = "string"
  THEN (IF member = "urls" THEN {"a", "b"} ELSE {<<"a">>, <<"b">>})
  ELSE {}

\* The index.json files a StorageManager can be started over: none, text
\* that is not JSON, JSON that is not an object, and objects whose urls and
\* titles are of any type.
IndexFiles ==
  {MissingFile}
  \cup {[MissingFile EXCEPT !.exists = TRUE, !.top = top] :
          top \in {"invalid", "null", "scalar"}}
  \cup {[exists |-> TRUE, top |-> "object",
          urlsType |-> ut, urls |-> MemberItems("urls", ut),
          titlesType |-> tt, titles |-> MemberItems("titles", tt),
          totalArticles |-> 1] : ut \in MemberTypes, tt \in MemberTypes}

\* No summary.json in the archive directory.
NoSummary ==
  [exists |-> FALSE, totalArticles |-> 0, totalImages |-> 0,
   totalVideos |-> 0, totalWords |-> 0]

\* -------------------------------------------------------- MediaDownloader
\* The revisions of MediaDownloader that stage files under media/temp.
DownloaderImpls == {"part_004", "part_005"}

\* Source URLs of images and of video files, and one embedded player.
ImageURLs == {"m1", "m2"}
VideoURL == "v1"
EmbedURL == "e1"
MediaURLs == ImageURLs \cup {VideoURL}

\* article.images and article.videos as extractImages and extractVideos
\* return them, no URL twice: nothing, one image, the other image, both
\* images, an image with a video file, an image with an embed.
NoRefs == [images |-> << >>, videos |-> << >>]
ImagesOf(urls) == [i \in 1..Len(urls) |-> [url |-> urls[i]]]
MediaRefs ==
  {NoRefs,
   [images |-> ImagesOf(<<"m1">>), videos |-> << >>],
   [images |-> ImagesOf(<<"m2">>), videos |-> << >>],
   [images |-> ImagesOf(<<"m1", "m2">>), videos |-> << >>],
   [images |-> ImagesOf(<<"m1">>),
    videos |-> <<[url |-> VideoURL, type |-> "video"]>>],
   [images |-> ImagesOf(<<"m1">>),
    videos |-> <<[url |-> EmbedURL, type |-> "embed"]>>]}

\* The entry folder of no article.
NoFolder ==
  [day |-> 0, sanitizedTitle |-> << >>,
   uniqueId |-> [kind |-> "", day |-> 0, hms |-> <<0, 0, 0>>, hash |-> ""]]

\* A path relative to the archive directory: media/temp/{temp}/{name} when
\* at = "temp", {entry}/media/{name} when at = "entry".
NoPath == [at |-> "", temp |-> << >>, entry |-> NoFolder, name |-> <<"", 0>>]
StagedPath(tempDir, name) == [NoPath EXCEPT !.at = "temp", !.temp = tempDir,
                                            !.name = name]
EntryPath(folder, name) == [NoPath EXCEPT !.at = "entry", !.entry = folder,
                                          !.name = name]

\* The mediaFiles object downloadMedia starts from.
EmptyManifest == [images |-> << >>, videos |-> << >>]

\* MediaDownloader.hashUrl: the md5 digest of the URL.
hashUrl(url) == <<"md5", url>>

\* MediaDownloader.generateSafeId: md5(x).substring(0, 12)
generateSafeId(x) == <<"md5_12">> \o x

\* downloadMedia: the folder under media/temp the call stages its files in.
\* part_005 joins the id it is given, part_004 the safe id derived from it.
tempMediaDir(impl, id) == IF impl = "part_004" THEN generateSafeId(id) ELSE id

\* downloadFile marking the URL before the request is made.
downloadFileMarkFirst(dl, url, filePath, fails) ==
  IF hashUrl(url) \in dl.downloadedHashes
  THEN [dl |-> dl, filePath |-> NoPath, result |-> "null"]
  ELSE IF fails
  THEN [dl |-> [dl EXCEPT !.downloadedHashes = @ \cup {hashUrl(url)}],
        filePath |-> NoPath, result |-> "threw"]
  ELSE [dl |-> [dl EXCEPT !.downloadedHashes = @ \cup {hashUrl(url)},
                          !.files = @ \cup {filePath},
                          !.downloads[url] = @ + 1],
        filePath |-> filePath, result |-> "path"]

\* MediaDownloader.downloadFile on dl = the downloader's downloadedHashes,
\* the staged files and the download counts: null for a URL already in
\* downloadedHashes; otherwise the request and the write, either of which
\* can throw; the hash is added after the write.
downloadFile(dl, url, filePath, fails) ==
  IF hashUrl(url) \in dl.downloadedHashes
  THEN [dl |-> dl, filePath |-> NoPath, result |-> "null"]
  ELSE IF fails
  THEN [dl |-> dl, filePath |-> NoPath, result |-> "threw"]
  ELSE [dl |-> [dl EXCEPT !.downloadedHashes = @ \cup {hashUrl(url)},
                          !.files = @ \cup {filePath},
                          !.downloads[url] = @ + 1],
        filePath |-> filePath, result |-> "path"]

\* The positions of article.images and article.videos whose download throws.
FailSets == SUBSET {<<"image", 1>>, <<"image", 2>>, <<"video", 1>>}

\* downloadMedia, the loop over article.images from position i on.
RECURSIVE downloadImages(_, _, _, _, _)
downloadImages(acc, images, i, dir, fails) ==
  IF i > Len(images) THEN acc
  ELSE LET r == downloadFile(acc.dl, images[i].url,
                             StagedPath(dir, <<"image", i>>),
                             <<"image", i>> \in fails)
           entry == [originalUrl |-> images[i].url, localPath |-> r.filePath]
       IN  downloadImages(
             [acc EXCEPT !.dl = r.dl,
                         !.mediaFiles.images =
                           IF r.result = "path" THEN Append(@, entry) ELSE @],
             images, i + 1, dir, fails)

\* downloadMedia, the loop over article.videos from position i on.
RECURSIVE downloadVideos(_, _, _, _, _)
downloadVideos(acc, videos, i, dir, fails) ==
  IF i > Len(videos) THEN acc
  ELSE IF videos[i].type = "embed"
  THEN downloadVideos(
         [acc EXCEPT !.mediaFiles.videos =
                       Append(@, [originalUrl |-> videos[i].url,
                                  type |-> "embed", localPath |-> NoPath])],
         videos, i + 1, dir, fails)
  ELSE LET r == downloadFile(acc.dl, videos[i].url,
                             StagedPath(dir, <<"video", i>>),
                             <<"video", i>> \in fails)
           entry == [originalUrl |-> videos[i].url, type |-> "undefined",
                     localPath |-> r.filePath]
       IN  downloadVideos(
             [acc EXCEPT !.dl = r.dl,
                         !.mediaFiles.videos =
                           IF r.result = "path" THEN Append(@, entry) ELSE @],
             videos, i + 1, dir, fails)

\* MediaDownloader.downloadMedia after its mkdir: the images, then the
\* videos; returns the downloader state and the mediaFiles object.
downloadMedia(dl, refs, dir, fails) ==
  downloadVideos(
    downloadImages([dl |-> dl, mediaFiles |-> EmptyManifest],
                   refs.images, 1, dir, fails),
    refs.videos, 1, dir, fails)

\* -------------------------------------------------------- StorageManager
\* new Set(member || []) throws for a value that is neither falsy nor
\* iterable.
SetThrows(type) == type \in {"number", "object"}

\* new Set(member || []): empty for an absent or null member, the elements
\* of an array, the characters of a string.
SetOf(type, items) == IF type \in {"array", "string"} THEN items ELSE {}

\* StorageManager.loadIndex: readFile or JSON.parse throwing, a property
\* read on null, or a Set constructor throwing ends in the catch block,
\* which installs the empty index; a parsed value that is not an object has
\* no urls and no titles.
loadIndex(file) ==
  IF ~file.exists \/ file.top \in {"invalid", "null"} THEN EmptyIndex
  ELSE IF file.top = "scalar" THEN EmptyIndex
  ELSE IF SetThrows(file.urlsType) \/ SetThrows(file.titlesType)
  THEN EmptyIndex
  ELSE [urls |-> SetOf(file.urlsType, file.urls),
        titles |-> SetOf(file.titlesType, file.titles)]

\* StorageManager.saveIndex: the file written from the in-memory state.
saveIndex(idx, arts) ==
  [exists |-> TRUE, top |-> "object",
   urlsType |-> "array", urls |-> idx.urls,
   titlesType |-> "array", titles |-> idx.titles,
   totalArticles |-> Len(arts)]

\* isDuplicate comparing the lower-cased title without trimming it.
isDuplicateUntrimmed(idx, article) ==
  \/ article.url \in idx.urls
  \/ toLowerCase(article.title) \in idx.titles

\* StorageManager.isDuplicate
isDuplicate(idx, article) ==
  IF article.url \in idx.urls THEN TRUE
  ELSE IF normalizedTitle(article.title) \in idx.titles THEN TRUE
  ELSE FALSE

\* StorageManager.generateArticleId: 'article_' + hash
generateArticleId(article) == <<"article_", md5Prefix(article.url)>>

\* StorageManager.parseArticleDate
parseArticleDate(d) == IF d.valid THEN d ELSE Now

HasTimeOfDay(d) == d.hms[1] # 0 \/ d.hms[2] # 0 \/ d.hms[3] # 0

\* The timestamp suffix formatted as 'yyyyMMdd', without the time of day.
uniqueIdDateOnly(article) ==
  LET pubDate == article.publishDate
  IN  IF pubDate.valid /\ HasTimeOfDay(pubDate)
      THEN [kind |-> "timestamp", day |-> pubDate.day, hms |-> <<0, 0, 0>>,
            hash |-> ""]
      ELSE [kind |-> "hash", day |-> 0, hms |-> <<0, 0, 0>>,
            hash |-> md5Prefix(article.url)]

\* saveArticle, part_005: the suffix is format(pubDate, 'yyyyMMdd-HHmmss')
\* when the date has a time of day; an invalid date makes format throw and
\* the catch falls back to the hash, as does a time of 00:00:00.
uniqueIdTime(article) ==
  LET pubDate == article.publishDate
  IN  IF pubDate.valid /\ HasTimeOfDay(pubDate)
      THEN [kind |-> "timestamp", day |-> pubDate.day, hms |-> pubDate.hms,
            hash |-> ""]
      ELSE [kind |-> "hash", day |-> 0, hms |-> <<0, 0, 0>>,
            hash |-> generateArticleId(article)[2]]

\* saveArticle, storage.js: articleId.split('_')[1]
uniqueIdHash(article) ==
  [kind |-> "hash", day |-> 0, hms |-> <<0, 0, 0>>,
   hash |-> generateArticleId(article)[2]]

uniqueId(impl, article) ==
  IF impl = "storage.js" THEN uniqueIdHash(article) ELSE uniqueIdTime(article)

\* saveArticle: articles/{yyyy}/{MM-MMMM}/{dd}/{sanitizedTitle}-{uniqueId};
\* year and month are those of January 2024 throughout.
articleFolder(impl, article) ==
  [day |-> parseArticleDate(article.publishDate).day,
   sanitizedTitle |-> sanitizeTitle(impl, article.title),
   uniqueId |-> uniqueId(impl, article)]

\* article.content.split(/\s+/).length: the word count of the page behind
\* each URL.
wordCount(article) ==
  CASE article.url = "u1" -> 120
    [] article.url = "u2" -> 300
    [] OTHER -> 120

\* saveArticle: the record pushed on this.articles and written to article.json
articleData(impl, article, manifest) ==
  [id |-> generateArticleId(article),
   url |-> article.url,
   title |-> article.title,
   publishDate |-> article.publishDate,
   mediaFiles |-> manifest,
   wordCount |-> wordCount(article),
   folderPath |-> articleFolder(impl, article)]

\* Where an awaited file-system call of saveArticle throws, if any: creating
\* the entry folder, writing article.json, or a later record write
\* (article.html, article.md, README.txt).
SaveFailPoints == {"none", "mkdir", "article.json", "README.txt"}

\* The index updated as soon as the entry folder exists, before the record
\* writes.
saveArticleIndexEarly(idx, article, failAt) ==
  IF failAt # "mkdir"
  THEN [urls |-> idx.urls \cup {article.url},
        titles |-> idx.titles \cup {normalizedTitle(article.title)}]
  ELSE idx

\* The index updated with the title as extracted, not normalized.
saveArticleIndexRaw(idx, article, failAt) ==
  IF failAt = "none"
  THEN [urls |-> idx.urls \cup {article.url},
        titles |-> idx.titles \cup {article.title}]
  ELSE idx

\* saveArticle: this.index.urls.add / this.index.titles.add, the last
\* statements of the method, reached only when nothing threw.
saveArticleIndex(idx, article, failAt) ==
  IF failAt = "none"
  THEN [urls |-> idx.urls \cup {article.url},
        titles |-> idx.titles \cup {normalizedTitle(article.title)}]
  ELSE idx

\* saveArticle: this.articles.push(articleData)
saveArticleEntries(arts, data, failAt) ==
  IF failAt = "none" THEN Append(arts, data) ELSE arts

\* saveArticle: fs.mkdir(articleFolder, {recursive: true})
saveArticleFolders(dirs, folder, failAt) ==
  IF failAt = "mkdir" THEN dirs ELSE dirs \cup {folder}

\* saveArticle: fs.writeFile(articleJsonPath, ...) replaces the file of
\* that folder.
saveArticleJson(files, data, failAt) ==
  IF failAt \in {"mkdir", "article.json"} THEN files
  ELSE {d \in files : d.folderPath # data.folderPath} \cup {data}

\* Where saveAllFormats throws, if any: before saveIndex (articles.json or
\* the CSV) or after it, when summary.json is written.
ExportFailPoints == {"none", "articles.json", "summary.json"}

\* Array.prototype.reduce((sum, x) => sum + x, 0)
RECURSIVE Sum(_)
Sum(s) == IF s = << >> THEN 0 ELSE Head(s) + Sum(Tail(s))

\* The summary adding its counts to those of the summary.json it replaces.
createSummaryReportAdding(file, arts) ==
  [exists |-> TRUE,
   totalArticles |-> file.totalArticles + Len(arts),
   totalImages |->
     file.totalImages
     + Sum([i \in 1..Len(arts) |-> Len(arts[i].mediaFiles.images)]),
   totalVideos |->
     file.totalVideos
     + Sum([i \in 1..Len(arts) |-> Len(arts[i].mediaFiles.videos)]),
   totalWords |->
     file.totalWords + Sum([i \in 1..Len(arts) |-> arts[i].wordCount])]

\* StorageManager.createSummaryReport: the counts of the summary written
\* over the summary.json that is there, all taken from this.articles.
createSummaryReport(file, arts) ==
  [exists |-> TRUE,
   totalArticles |-> Len(arts),
   totalImages |->
     Sum([i \in 1..Len(arts) |-> Len(arts[i].mediaFiles.images)]),
   totalVideos |->
     Sum([i \in 1..Len(arts) |-> Len(arts[i].mediaFiles.videos)]),
   totalWords |-> Sum([i \in 1..Len(arts) |-> arts[i].wordCount])]

\* saveAllFormats -> createSummaryReport
saveAllFormatsSummary(file, arts, failAt) ==
  IF failAt = "none" THEN createSummaryReport(file, arts) ELSE file

\* saveAllFormats -> saveIndex
saveAllFormatsIndexFile(file, idx, arts, failAt) ==
  IF failAt = "articles.json" THEN file ELSE saveIndex(idx, arts)

\* ------------------------------------------- calls on one StorageManager
\* new StorageManager(baseUrl) followed by initialize(): a fresh process
\* over the archive directory as it stands.
Initialize ==
  /\ articles' = << >>
  /\ index' = loadIndex(indexFile)
  /\ lastCall' = [op |-> "initialize", result |-> "returned"]
  /\ UNCHANGED <<storageImpl, indexFile, summaryFile, folders, articleJson, saveCalls>>
  /\ UNCHANGED <<scrape, jobVars, mediaVars, discovery, concurrent, archiver>>

\* initialize() called on the manager in use: loadIndex replaces the index,
\* this.articles is left as it is.
InitializeAgain ==
  /\ index' = loadIndex(indexFile)
  /\ lastCall' = [op |-> "initialize", result |-> "returned"]
  /\ UNCHANGED <<storageImpl, articles, indexFile, summaryFile, folders,
                 articleJson, saveCalls>>
  /\ UNCHANGED <<scrape, jobVars, mediaVars, discovery, concurrent, archiver>>

IsDuplicateCall(article) ==
  /\ lastCall' = [op |-> "isDuplicate",
                  result |-> IF isDuplicate(index, article) THEN "true"
                             ELSE "false"]
  /\ UNCHANGED <<storageImpl, articles, index, indexFile, summaryFile, folders,
                 articleJson, saveCalls, scrape, jobVars, mediaVars, discovery, concurrent, archiver>>

\* StorageManager.saveArticle: what one call does to the manager and to the
\* entry records on disk. article.json is stringified from the manifest as
\* it stands when the file is written, this.articles holds the manifest
\* object itself.
saveArticleRecords(article, written, held, failAt) ==
  LET data == articleData(storageImpl, article, held)
      onDisk == articleData(storageImpl, article, written)
  IN  /\ saveCalls' = saveCalls + 1
      /\ folders' = saveArticleFolders(folders, data.folderPath, failAt)
      /\ articleJson' = saveArticleJson(articleJson, onDisk, failAt)
      /\ articles' = saveArticleEntries(articles, data, failAt)
      /\ index' = saveArticleIndex(index, article, failAt)
      /\ lastCall' = [op |-> "saveArticle",
                      result |-> IF failAt = "none" THEN "returned"
                                 ELSE "threw"]

\* saveArticle(article, mediaFiles) with a manifest that lists nothing.
saveArticle(article, failAt) ==
  saveArticleRecords(article, EmptyManifest, EmptyManifest, failAt)

\* The image loop giving up on every image once a rename is going to fail.
movesImageUnlessAnyFails(impl, e, disk, moveFails) ==
  e.localPath \in disk /\ moveFails = {}

\* The move loops: image entries in both revisions, video entries that are
\* not embeds in part_005 only. A rename moves the file when fs.access and
\* fs.rename succeed: the source exists and the call does not fail.
movesImage(impl, e, disk, moveFails) ==
  e.localPath \in disk /\ e.localPath.name \notin moveFails

movesVideo(impl, e, disk, moveFails) ==
  /\ impl = "part_005"
  /\ e.type # "embed"
  /\ e.localPath \in disk
  /\ e.localPath.name \notin moveFails

\* saveArticle: every entry that moves gets the path of its file under the
\* media folder of the entry; an entry whose move throws keeps its path.
moveMedia(impl, manifest, folder, disk, moveFails) ==
  LET moved(e) == [e EXCEPT !.localPath = EntryPath(folder, @.name)]
      images == [i \in 1..Len(manifest.images) |->
                   IF movesImage(impl, manifest.images[i], disk, moveFails)
                   THEN moved(manifest.images[i]) ELSE manifest.images[i]]
      videos == [i \in 1..Len(manifest.videos) |->
                   IF movesVideo(impl, manifest.videos[i], disk, moveFails)
                   THEN moved(manifest.videos[i]) ELSE manifest.videos[i]]
      gone == {manifest.images[i].localPath : i \in
                 {k \in 1..Len(manifest.images) :
                    movesImage(impl, manifest.images[k], disk, moveFails)}}
              \cup
              {manifest.videos[i].localPath : i \in
                 {k \in 1..Len(manifest.videos) :
                    movesVideo(impl, manifest.videos[k], disk, moveFails)}}
  IN  [mediaFiles |-> [images |-> images, videos |-> videos],
       disk |-> (disk \ gone) \cup {EntryPath(folder, f.name) : f \in gone}]

\* saveArticle, part_005: fs.rm of media/temp/{articleId}, recursive.
removeTempDir(disk, articleId) ==
  {f \in disk : ~(f.at = "temp" /\ f.temp = articleId)}

\* StorageManager.saveArticle(article, mediaFiles): the whole call. storage.js
\* writes the records and then moves the images; part_005 makes the folder,
\* moves images and videos, removes the staging folder named by the article
\* id, and then writes the records.
saveArticleMedia(article, manifest, failAt, moveFails) ==
  LET impl == storageImpl
      folder == articleFolder(impl, article)
      reachesMoves == IF impl = "storage.js" THEN failAt = "none"
                      ELSE failAt # "mkdir"
      cleans == impl = "part_005" /\ failAt # "mkdir"
      articleId == generateArticleId(article)
      disk == tempFiles \cup entryMedia
      m == IF reachesMoves
           THEN moveMedia(impl, manifest, folder, disk, moveFails)
           ELSE [mediaFiles |-> manifest, disk |-> disk]
      after == IF cleans THEN removeTempDir(m.disk, articleId) ELSE m.disk
      written == IF impl = "storage.js" THEN manifest ELSE m.mediaFiles
  IN  /\ saveArticleRecords(article, written, m.mediaFiles, failAt)
      /\ mediaFiles' = m.mediaFiles
      /\ tempFiles' = {f \in after : f.at = "temp"}
      /\ entryMedia' = {f \in after : f.at = "entry"}
      /\ tempDirs' = IF cleans THEN tempDirs \ {articleId} ELSE tempDirs

\* saveArticle persisting the index at the end of every commit.
SaveArticleSavingIndex(article, failAt) ==
  /\ saveCalls < MaxCommits
  /\ saveArticle(article, failAt)
  /\ indexFile' = IF failAt = "none" THEN saveIndex(index', articles')
                  ELSE indexFile
  /\ UNCHANGED <<storageImpl, summaryFile, scrape, jobVars, mediaVars, discovery, concurrent, archiver>>

SaveArticle(article, failAt) ==
  /\ saveCalls < MaxCommits
  /\ saveArticle(article, failAt)
  /\ UNCHANGED <<storageImpl, indexFile, summaryFile, scrape, jobVars, mediaVars, discovery, concurrent, archiver>>

\* StorageManager.saveAllFormats: what one call does.
saveAllFormats(failAt) ==
  /\ indexFile' = saveAllFormatsIndexFile(indexFile, index, articles, failAt)
  /\ summaryFile' = saveAllFormatsSummary(summaryFile, articles, failAt)
  /\ lastCall' = [op |-> "saveAllFormats",
                  result |-> IF failAt = "none" THEN "returned" ELSE "threw"]

SaveAllFormats(failAt) ==
  /\ saveAllFormats(failAt)
  /\ UNCHANGED <<storageImpl, articles, index, folders, articleJson,
                 saveCalls, scrape, jobVars, mediaVars, discovery, concurrent, archiver>>

\* ------------------------------------------- calls on one MediaDownloader
\* No MediaDownloader has been constructed.
NoDownloader == [impl |-> "", downloadedHashes |-> {}]

NoMediaCall ==
  [op |-> "", result |-> "",
   article |-> [url |-> "", title |-> << >>, publishDate |-> InvalidDate],
   refs |-> NoRefs,
   tempMediaDir |-> << >>, hashesBefore |-> {}, failed |-> {},
   moveFails |-> {}]

\* new MediaDownloader(baseDir), of the revision the process runs.
NewDownloader(impl) ==
  /\ downloader.impl \in {"", impl}
  /\ downloader' = [impl |-> impl, downloadedHashes |-> {}]
  /\ UNCHANGED <<downloads, tempDirs, tempFiles, entryMedia, mediaFiles,
                 mediaCall, mediaCalls>>

\* What the callers pass as the second argument of downloadMedia:
\* storage.generateArticleId(article) in server.js, the article URL in
\* part_001.
IdKinds == {"articleId", "url"}
idArgument(kind, article) ==
  IF kind = "articleId" THEN generateArticleId(article) ELSE <<article.url>>

\* MediaDownloader.downloadMedia(article, id): the whole call. The mkdir of
\* the staging folder is awaited outside every try.
DownloadMedia(article, id, refs, fails, outcome) ==
  LET dir == tempMediaDir(downloader.impl, id)
      r == downloadMedia([downloadedHashes |-> downloader.downloadedHashes,
                          files |-> tempFiles, downloads |-> downloads],
                         refs, dir, fails)
      call == [op |-> "downloadMedia", result |-> "returned",
               article |-> article, refs |-> refs, tempMediaDir |-> dir,
               hashesBefore |-> downloader.downloadedHashes,
               failed |-> {}, moveFails |-> {}]
      threw(kind, list) ==
        {list[i].url : i \in {k \in 1..Len(list) :
           /\ <<kind, k>> \in fails
           /\ list[k].type # "embed"
           /\ hashUrl(list[k].url) \notin downloader.downloadedHashes}}
      images == [i \in 1..Len(refs.images) |->
                   [url |-> refs.images[i].url, type |-> "image"]]
  IN  /\ downloader.impl # ""
      /\ mediaCalls' = mediaCalls + 1
      /\ IF outcome = "mkdirThrows"
         THEN /\ mediaCall' = [call EXCEPT !.result = "threw"]
              /\ UNCHANGED <<downloader, downloads, tempDirs, tempFiles,
                             mediaFiles>>
         ELSE /\ mediaCall' =
                   [call EXCEPT !.failed = threw("image", images)
                                  \cup threw("video", refs.videos)]
              /\ downloader' =
                   [downloader EXCEPT
                      !.downloadedHashes = r.dl.downloadedHashes]
              /\ downloads' = r.dl.downloads
              /\ tempDirs' = tempDirs \cup {dir}
              /\ tempFiles' = r.dl.files
              /\ mediaFiles' = r.mediaFiles
      /\ UNCHANGED entryMedia

\* The articles whose media are acquired and committed.
MediaArticles == {a \in DedupArticles : a.title = TitleAb}

\* The positions of the references that downloadMedia hands to downloadFile.
Positions(refs) ==
  {<<"image", i>> : i \in 1..Len(refs.images)}
  \cup {<<"video", i>> : i \in {k \in 1..Len(refs.videos) :
                                  refs.videos[k].type # "embed"}}

\* downloader.downloadMedia as a caller issues it; a download that fails is
\* one the call makes.
DownloadMediaCall(article, kind, refs, fails, outcome) ==
  /\ mediaCalls < MaxMediaCalls
  /\ fails \subseteq Positions(refs)
  /\ outcome = "mkdirThrows" => fails = {}
  /\ DownloadMedia(article, idArgument(kind, article), refs, fails, outcome)
  /\ UNCHANGED <<storeVars, scrape, jobVars, discovery, concurrent, archiver>>

\* downloadMedia for the next article to commit, every download succeeding.
StageMedia(article, kind, refs) ==
  /\ saveCalls < MaxMediaCommits
  /\ mediaCall.op # "downloadMedia"
  /\ DownloadMedia(article, idArgument(kind, article), refs, {}, "returned")
  /\ UNCHANGED <<storeVars, scrape, jobVars, discovery, concurrent, archiver>>

\* storage.saveArticle(article, mediaFiles) with the manifest downloadMedia
\* has just returned for that article.
SaveArticleMedia(failAt, moveFails) ==
  /\ mediaCall.op = "downloadMedia"
  /\ mediaCall.result = "returned"
  /\ saveArticleMedia(mediaCall.article, mediaFiles, failAt, moveFails)
  /\ mediaCall' = [mediaCall EXCEPT !.op = "saveArticle",
                                    !.result = IF failAt = "none"
                                               THEN "returned" ELSE "threw",
                                    !.moveFails = moveFails]
  /\ UNCHANGED <<storageImpl, indexFile, summaryFile, scrape, jobVars, downloader,
                 downloads, mediaCalls, discovery, concurrent, archiver>>

\* ------------------------------------------ NewspaperScraper.scrapeArticle
\* The revisions of NewspaperScraper.
ScraperImpls == {"scraper.js", "part_006"}

\* No scrapeArticle call has been made. openPages counts, for each revision
\* of the scraper, the pages the call has opened and not closed.
ScrapeIdle ==
  [pc |-> "idle", url |-> "", retries |-> 0, attempts |-> 0,
   events |-> << >>, delays |-> << >>,
   last |-> [kind |-> "none", contentLength |-> 0],
   result |-> "pending", article |-> NoArticle,
   openPages |-> [impl \in ScraperImpls |-> 0]]

\* How one pass of the try block ends: newPage throws, goto (or a later
\* page call) throws, or extractArticleData returns an article.
AttemptKinds == {"newPageThrows", "gotoThrows", "extracted"}

\* Every content length taken as long enough unless there is no content.
IsTooShortEmptyOnly(contentLength) == contentLength = 0

\* scrapeArticle: !article.content || article.content.length < 100
IsTooShort(contentLength) ==
  contentLength = 0 \/ contentLength < MinContentLength

\* A delay that doubles with every retry.
delayBackoff(retries) == retryDelay * (2 ^ (retries - 1))

\* scrapeArticle: await this.delay(config.retryDelay)
delayFor(retries) == retryDelay

\* Every pass of the try block closing the page it opened.
pagesLeftNone(impl, kind, contentLength) == 0

\* The pages one pass of the try block leaves open. newPage throwing opens
\* none; page.close() is the last statement of the try block in scraper.js
\* and stands before the length test in part_006, and no catch or finally
\* closes the page, so a pass that throws before page.close() leaves its
\* page open.
pagesLeft(impl, kind, contentLength) ==
  IF kind = "gotoThrows" THEN 1
  ELSE IF kind = "extracted" /\ impl = "scraper.js" /\ IsTooShort(contentLength)
  THEN 1
  ELSE 0

\* let retries = 0; the while loop is entered.
ScrapeArticleCall(url) ==
  /\ scrape.pc \in {"idle", "returned"}
  /\ scrape' = [ScrapeIdle EXCEPT !.pc = "loop", !.url = url]

\* One pass of the while loop: the try block and, when it throws, the catch
\* block with its delay.
AttemptStep(kind, article) ==
  LET loading == IF kind = "newPageThrows" THEN << >> ELSE <<"loading">>
      threw == kind # "extracted" \/ IsTooShort(article.contentLength)
      retries == scrape.retries + 1
      exhausted == retries >= retryAttempts
      pages == [impl \in ScraperImpls |->
                  scrape.openPages[impl]
                    + pagesLeft(impl, kind, article.contentLength)]
  IN  /\ scrape.pc = "loop"
      /\ scrape.retries < retryAttempts
      /\ scrape' =
           IF ~threw
           THEN [scrape EXCEPT
                   !.pc = "returned",
                   !.attempts = @ + 1,
                   !.events = @ \o loading,
                   !.last = [kind |-> kind,
                             contentLength |-> article.contentLength],
                   !.result = "article",
                   !.article = article,
                   !.openPages = pages]
           ELSE [scrape EXCEPT
                   !.pc = IF exhausted THEN "returned" ELSE "loop",
                   !.attempts = @ + 1,
                   !.retries = retries,
                   !.events = @ \o loading
                                \o (IF exhausted THEN <<"error">> ELSE << >>),
                   !.delays = IF exhausted THEN @
                              ELSE Append(@, delayFor(retries)),
                   !.last = [kind |-> kind,
                             contentLength |->
                               IF kind = "extracted"
                               THEN article.contentLength ELSE 0],
                   !.result = IF exhausted THEN "null" ELSE "pending",
                   !.openPages = pages]

\* The page loads tried by scrapeArticle on its own.
ScrapeTitles == {TitleAb, TitleBang}
ScrapeDates == {Midnight15, Afternoon15}

Attempt ==
  \/ \E kind \in {"newPageThrows", "gotoThrows"} :
       AttemptStep(kind, NoArticle) /\ UNCHANGED <<storeVars, jobVars, mediaVars, discovery, concurrent, archiver>>
  \/ \E a \in Extractions(scrape.url, ScrapeTitles, ScrapeDates) :
       AttemptStep("extracted", a) /\ UNCHANGED <<storeVars, jobVars, mediaVars, discovery, concurrent, archiver>>

\* ---------------------------------------------- NewspaperScraper discovery
\* An absolute URL https://{host}/{segs joined by '/'}, with a slash at the
\* end when slash is TRUE; the URLs explored have no query and no fragment.
\* An anchor of the listing page is the URL its href resolves to, and
\* whether it stands in article markup (an article or heading element, or a
\* class naming article or post).
URLOf(host, segs, slash) == [host |-> host, segs |-> segs, slash |-> slash]
AnchorTo(url, markup) == [url |-> url, markup |-> markup]

\* The listing page is the front page of example.com.
BaseURL == URLOf("example.com", << >>, TRUE)

HeadlineURL ==
  URLOf("example.com", <<"news", "2024", "01", "15", "headline-123456">>,
        FALSE)
TagURL == URLOf("example.com", <<"tag", "sports">>, TRUE)
LoginURL == URLOf("example.com", <<"login">>, FALSE)
ImageURL == URLOf("example.com", <<"image.jpg">>, FALSE)
BlogURL == URLOf("example.com", <<"blog", "my-story">>, FALSE)
NewsTagURL == URLOf("example.com", <<"news", "tag", "sports">>, TRUE)

\* The anchors a listing page is made of: the four of the example, an
\* article link outside and inside article markup, article links on the www
\* host, on another subdomain and on another site, and a tag page under
\* /news/.
Anchors ==
  {AnchorTo(HeadlineURL, FALSE), AnchorTo(TagURL, TRUE),
   AnchorTo(LoginURL, FALSE), AnchorTo(ImageURL, FALSE),
   AnchorTo(BlogURL, FALSE), AnchorTo(BlogURL, TRUE),
   AnchorTo(URLOf("www.example.com", <<"news", "x">>, FALSE), FALSE),
   AnchorTo(URLOf("m.example.com", <<"news", "x">>, FALSE), FALSE),
   AnchorTo(URLOf("other.com", <<"news", "x">>, FALSE), FALSE),
   AnchorTo(NewsTagURL, FALSE)}

\* The listing pages: the anchors of the page in document order.
Listings == UNION {[1..n -> Anchors] : n \in 0..MaxAnchors}

\* The pieces of the URL string between slashes, from the host on, and
\* whether a slash follows piece i.
Pieces(url) == <<url.host>> \o url.segs
Followed(url, i) == i < Len(Pieces(url)) \/ url.slash

\* /\/(w1|w2|...)\//: a piece that is one of the words, with a slash after it.
HasWord(url, words) ==
  \E i \in 1..Len(Pieces(url)) : Pieces(url)[i] \in words /\ Followed(url, i)

\* Character classes of the pieces that occur: \d{4}, \d{1,2} (which \d{2}
\* also matches here), a name ending in a hyphen and six or more digits, a
\* name ending in one of the file extensions, a name containing login,
\* signin, signup or register.
IsFourDigits(piece) == piece \in {"2024"}
IsTwoDigits(piece) == piece \in {"01", "15"}
EndsWithId(piece) == piece \in {"headline-123456"}
EndsWithExtension(piece) == piece \in {"image.jpg"}
NamesLogin(piece) == piece \in {"login"}

\* /\/\d{4}\/\d{2}\/\d{2}\// and /\/\d{4}\/\d{1,2}\/\d{1,2}\//
HasDatePath(url) ==
  \E i \in 1..Len(Pieces(url)) - 2 :
    /\ IsFourDigits(Pieces(url)[i])
    /\ IsTwoDigits(Pieces(url)[i + 1])
    /\ IsTwoDigits(Pieces(url)[i + 2])
    /\ Followed(url, i + 2)

\* /\/\d{4}\//
HasYear(url) ==
  \E i \in 1..Len(Pieces(url)) :
    IsFourDigits(Pieces(url)[i]) /\ Followed(url, i)

\* The piece the URL string ends with, when no slash ends it.
LastPiece(url) == IF url.slash THEN "" ELSE Pieces(url)[Len(Pieces(url))]

\* looksLikeArticle, scraper.js: articlePatterns and excludePatterns. The
\* patterns for '#' at the end, '?p=' and '/wp-' match none of the URLs
\* explored.
hasArticlePatternJs(url) ==
  \/ HasWord(url, {"article", "news", "story", "post", "blog", "press"})
  \/ HasDatePath(url)
  \/ HasYear(url)

hasExcludePatternJs(url) ==
  \/ HasWord(url, {"tag", "category", "author", "search", "page", "archive",
                   "feed"})
  \/ EndsWithExtension(LastPiece(url))

\* looksLikeArticle, part_006: the words may also be followed by a hyphen,
\* which none of the pieces explored is.
hasArticlePattern006(url) ==
  \/ HasWord(url, {"article", "articles", "news", "story", "stories", "post",
                   "posts", "blog", "press", "report", "reports", "feature",
                   "features", "opinion", "opinions", "analysis"})
  \/ HasDatePath(url)
  \/ EndsWithId(LastPiece(url))

hasExcludePattern006(url) ==
  \/ HasWord(url, {"tag", "category", "author", "search", "page", "about",
                   "contact", "privacy", "terms", "subscribe", "gallery",
                   "feed", "rss"})
  \/ EndsWithExtension(LastPiece(url))
  \/ \E i \in 1..Len(Pieces(url)) : NamesLogin(Pieces(url)[i])

hasArticlePattern(impl, url) ==
  IF impl = "scraper.js" THEN hasArticlePatternJs(url)
  ELSE hasArticlePattern006(url)

hasExcludePattern(impl, url) ==
  IF impl = "scraper.js" THEN hasExcludePatternJs(url)
  ELSE hasExcludePattern006(url)

\* looksLikeArticle testing the article patterns only.
looksLikeArticleAnyPattern(impl, url) == hasArticlePattern(impl, url)

\* NewspaperScraper.looksLikeArticle
looksLikeArticle(impl, url) ==
  hasArticlePattern(impl, url) /\ ~hasExcludePattern(impl, url)

\* hostname.replace(/^www\./, '')
stripWww(host) == IF host = "www.example.com" THEN "example.com" ELSE host

\* The host names compared: as they are in scraper.js, without a leading
\* www. in part_006.
linkDomain(impl, host) == IF impl = "scraper.js" THEN host ELSE stripWww(host)

\* The anchors the revision looks at. scraper.js: those one of the
\* articleSelectors matches, i.e. anchors in article markup and anchors whose
\* href contains /article/, /news/, /story/ or /post/. part_006: every
\* anchor (getAllLinks).
isCandidate(impl, anchor) ==
  IF impl = "scraper.js"
  THEN anchor.markup
       \/ HasWord([anchor.url EXCEPT !.host = ""],
                  {"article", "news", "story", "post"})
  ELSE TRUE

\* The test applied to a candidate.
keeps(impl, anchor) ==
  /\ linkDomain(impl, anchor.url.host) = linkDomain(impl, BaseURL.host)
  /\ looksLikeArticle(impl, anchor.url)

\* Array.from(new Set(list)): the list without repetitions, in the order of
\* first occurrence.
unique(list) ==
  LET marked == [i \in 1..Len(list) |->
                   [x |-> list[i],
                    first |-> \A j \in 1..(i - 1) : list[j] # list[i]]]
      kept == SelectSeq(marked, LAMBDA m : m.first)
  IN  [i \in 1..Len(kept) |-> kept[i].x]

\* discoverArticleLinks of scraper.js; getAllLinks, filterArticleLinks and
\* the Set of scrapeWebsite in part_006 (its second pass runs when the first
\* finds nothing, over a part of the same anchors with the same test). The
\* links are listed in document order; scraper.js lists them selector by
\* selector, which changes their order and not which links there are.
discoverArticleLinks(impl, listing) ==
  LET passed == SelectSeq(listing,
                          LAMBDA a : isCandidate(impl, a) /\ keeps(impl, a))
  IN  unique([i \in 1..Len(passed) |-> passed[i].url])

\* No listing page has been looked at.
NoDiscovery == [impl |-> "", listing |-> << >>, links |-> << >>]

\* scrapeWebsite up to the list of links it returns. A call takes nothing
\* from the call before it, so it is explored from the state in which no
\* listing page has been looked at.
ScrapeWebsite(impl) ==
  /\ discovery = NoDiscovery
  /\ \E listing \in Listings :
       discovery' = [impl |-> impl, listing |-> listing,
                     links |-> discoverArticleLinks(impl, listing)]
  /\ UNCHANGED <<storeVars, scrape, jobVars, mediaVars, concurrent,
                 archiver>>

\* ------------------------------------- POST /api/scrape jobs at the same time
\* The handler starts scrapeBulk without awaiting it and without looking at
\* activeJobs, so a second job on the same domain starts while the first
\* runs. Each job has its own StorageManager; index.json, articles.json and
\* the entry folders are those of the one archive directory.
JobIds == 1..MaxConcurrent

\* The articles the jobs come across: two URLs with titles that differ.
ConcurrentArticles ==
  {a \in DedupArticles :
     \/ a.url = "u1" /\ a.title = TitleAb
     \/ a.url = "u2" /\ a.title = TitleA_B}

NoManager == [pc |-> "none", index |-> EmptyIndex, articles |-> << >>]

\* No job runs; articles.json has not been written; writer is the job whose
\* saveAllFormats ran last.
NoConcurrent ==
  [run |-> [k \in JobIds |-> NoManager], articlesFile |-> << >>,
   writer |-> 0]

\* scrapeBulk up to the loop: new StorageManager(url) and initialize().
ConcurrentStart(k) ==
  /\ concurrent.run[k].pc = "none"
  /\ concurrent' =
       [concurrent EXCEPT
          !.run[k] = [pc |-> "running", index |-> loadIndex(indexFile),
                      articles |-> << >>]]
  /\ UNCHANGED <<storeVars, scrape, jobVars, mediaVars, discovery, archiver>>

\* One pass of the loop for an article that storage.isDuplicate does not
\* know: storage.saveArticle with every write succeeding.
ConcurrentCommit(k, article) ==
  LET m == concurrent.run[k]
      data == articleData(storageImpl, article, EmptyManifest)
  IN  /\ m.pc = "running"
      /\ Len(m.articles) < MaxCommits
      /\ ~isDuplicate(m.index, article)
      /\ concurrent' =
           [concurrent EXCEPT
              !.run[k].index = saveArticleIndex(m.index, article, "none"),
              !.run[k].articles = saveArticleEntries(m.articles, data, "none")]
      /\ folders' = saveArticleFolders(folders, data.folderPath, "none")
      /\ articleJson' = saveArticleJson(articleJson, data, "none")
      /\ UNCHANGED <<storageImpl, articles, index, indexFile, summaryFile,
                     lastCall, saveCalls, scrape, jobVars, mediaVars,
                     discovery, archiver>>

\* saveAllFormats adding what it writes to what index.json holds.
ConcurrentExportMerging(k) ==
  LET m == concurrent.run[k]
      old == loadIndex(indexFile)
      merged == [urls |-> m.index.urls \cup old.urls,
                 titles |-> m.index.titles \cup old.titles]
  IN  /\ m.pc = "running"
      /\ indexFile' = saveIndex(merged, m.articles)
      /\ summaryFile' = saveAllFormatsSummary(summaryFile, m.articles, "none")
      /\ concurrent' = [concurrent EXCEPT !.run[k].pc = "done",
                                          !.articlesFile = m.articles,
                                          !.writer = k]
      /\ UNCHANGED <<storageImpl, articles, index, folders, articleJson,
                     lastCall, saveCalls, scrape, jobVars, mediaVars,
                     discovery, archiver>>

\* The end of the job: storage.saveAllFormats() writes articles.json from
\* this.articles and index.json from this.index.
ConcurrentExport(k) ==
  LET m == concurrent.run[k]
  IN  /\ m.pc = "running"
      /\ indexFile' = saveIndex(m.index, m.articles)
      /\ summaryFile' = saveAllFormatsSummary(summaryFile, m.articles, "none")
      /\ concurrent' = [concurrent EXCEPT !.run[k].pc = "done",
                                          !.articlesFile = m.articles,
                                          !.writer = k]
      /\ UNCHANGED <<storageImpl, articles, index, folders, articleJson,
                     lastCall, saveCalls, scrape, jobVars, mediaVars,
                     discovery, archiver>>

\* ------------------------------------------------- SiteArchiver.downloadFile
\* downloadAssets starts a downloadFile call for every asset of the page
\* from callbacks that nothing awaits, so calls for one page and for pages
\* crawled later run at the same time.
AssetURLs == {"a1", "a2"}
DownloadIds == 1..MaxDownloads

\* downloadedFiles is empty, no call has been made, nothing was fetched.
NoArchiver ==
  [downloadedFiles |-> {},
   calls |-> [d \in DownloadIds |-> [pc |-> "idle", url |-> ""]],
   fetched |-> [u \in AssetURLs |-> 0]]

\* downloadFile up to its first await: the membership test on
\* downloadedFiles, then axios.get is issued.
ArchiverDownloadFile(d, url) ==
  LET known == url \in archiver.downloadedFiles
  IN  /\ archiver.calls[d].pc = "idle"
      /\ archiver' =
           [archiver EXCEPT
              !.calls[d] = [pc |-> IF known THEN "returned" ELSE "fetching",
                            url |-> url],
              !.fetched[url] = IF known THEN @ ELSE @ + 1]
      /\ UNCHANGED <<storeVars, scrape, jobVars, mediaVars, discovery,
                     concurrent>>

DownloadOutcomes == {"written", "threw"}

\* downloadFile after axios.get: the file is written and the URL is added
\* to downloadedFiles, or the catch block swallows the exception.
ArchiverDownloadFileEnds(d, outcome) ==
  /\ archiver.calls[d].pc = "fetching"
  /\ archiver' =
       [archiver EXCEPT
          !.calls[d].pc = "returned",
          !.downloadedFiles =
            IF outcome = "written" THEN @ \cup {archiver.calls[d].url}
            ELSE @]
  /\ UNCHANGED <<storeVars, scrape, jobVars, mediaVars, discovery,
                 concurrent>>

\* ------------------------------------------------ the POST /api/scrape job
\* The two revisions of the server: scrapeSingleArticle / scrapeBulk of
\* server.js, and the inline handler of part_001.
ServerImpls == {"server.js", "part_001"}
Modes == {"single", "bulk"}

\* The article pages a job is pointed at, and what one load of such a page
\* can extract: a title with letters or one without, too short or long
\* enough.
JobURLs == {"u1", "u2"}
JobTitles == {TitleAb, TitleBang}
JobExtractions(url) ==
  [url : {url}, title : JobTitles, publishDate : {Midnight15},
   contentLength : {40, 500}]

\* discoverArticleLinks returns the links of a Set: no URL twice.
LinkLists ==
  {s \in UNION {[1..n -> JobURLs] : n \in 0..MaxLinks} :
     \A a, b \in 1..Len(s) : a # b => s[a] # s[b]}

\* No job has been posted.
NoJob ==
  [serverImpl |-> "", mode |-> "", status |-> "", pc |-> "none",
   links |-> << >>, i |-> 0, article |-> NoArticle, dup |-> "", ops |-> {},
   articlesScraped |-> 0, articlesFailed |-> 0, error |-> "",
   discovered |-> FALSE, exports |-> 0, browser |-> "none"]

\* finally { await scraper.close() }: the browser is closed when there is
\* one.
close(j) == [j EXCEPT !.browser = IF @ = "open" THEN "closed" ELSE @]

\* The outer catch block without the finally block.
FailJobBrowserOpen(j, thrownBy) ==
  [j EXCEPT !.status = "failed", !.pc = "done", !.error = thrownBy]

\* The outer catch block: job.status = 'failed', job.error = error.message;
\* then the finally block.
FailJob(j, thrownBy) ==
  close([j EXCEPT !.status = "failed", !.pc = "done", !.error = thrownBy])

\* The for loop goes on to the next link, or ends; scrapeBulk of server.js
\* sets job.status = 'saving' after the loop.
NextCandidate(j) ==
  IF j.i < Len(j.links)
  THEN [j EXCEPT !.i = @ + 1, !.pc = "scrape"]
  ELSE [j EXCEPT !.pc = "export",
                 !.status = IF j.serverImpl = "server.js" /\ j.mode = "bulk"
                            THEN "saving" ELSE @]

\* An exception thrown while one article is processed. Single mode: the
\* outer catch. scrapeBulk of server.js: the catch inside the loop counts
\* the candidate as failed and the loop goes on. Bulk mode of part_001: the
\* loop body has no try, the exception reaches the outer catch.
CandidateThrows(j, thrownBy) ==
  IF j.mode = "single"
  THEN FailJob([j EXCEPT !.articlesFailed =
                           IF j.serverImpl = "server.js" THEN 1 ELSE @],
               thrownBy)
  ELSE IF j.serverImpl = "server.js"
  THEN NextCandidate([j EXCEPT !.articlesFailed = @ + 1])
  ELSE FailJob(j, thrownBy)

\* new StorageManager(url) and storage.initialize(): the constructor's empty
\* state, then the index of index.json unless a mkdir throws.
initialize(outcome) ==
  /\ articles' = << >>
  /\ index' = IF outcome = "storageThrows" THEN EmptyIndex
              ELSE loadIndex(indexFile)
  /\ lastCall' = [op |-> "initialize",
                  result |-> IF outcome = "storageThrows" THEN "threw"
                             ELSE "returned"]

StartOutcomes == {"ok", "launchThrows", "storageThrows"}

\* The job object as the handler of part_001 stores it in the map.
newJobAsStored(server, mode, url) ==
  [NoJob EXCEPT !.serverImpl = server, !.mode = mode,
                !.status = IF server = "part_001" THEN "started"
                           ELSE "initializing",
                !.pc = "launch",
                !.links = IF mode = "single" THEN <<url>> ELSE << >>]

\* The job object when the handler first yields, at await
\* scraper.initialize(): server.js creates it with status 'initializing';
\* part_001 creates it with status 'started' and sets 'initializing' in the
\* same synchronous run, before any status request can be served.
newJob(server, mode, url) ==
  [NoJob EXCEPT !.serverImpl = server, !.mode = mode,
                !.status = "initializing", !.pc = "launch",
                !.links = IF mode = "single" THEN <<url>> ELSE << >>]

\* POST /api/scrape: the job is stored and the handler awaits the browser.
PostJob(server, mode, url) ==
  /\ job.pc \in {"none", "done"}
  /\ jobsStarted < MaxJobs
  /\ jobsStarted' = jobsStarted + 1
  /\ job' = newJob(server, mode, url)
  /\ UNCHANGED <<storeVars, scrape, mediaVars, discovery, concurrent, archiver>>

\* The handler from scraper.initialize() up to the first scrapeArticle or
\* scrapeWebsite call; in server.js the StorageManager of the job is
\* constructed here.
StartJob(outcome) ==
  LET j0 == [job EXCEPT !.browser = IF outcome = "launchThrows" THEN "none"
                                    ELSE "open"]
      storageHere == job.serverImpl = "server.js" /\ outcome # "launchThrows"
  IN  /\ job.pc = "launch"
      /\ job' = IF outcome = "launchThrows"
                THEN FailJob(j0, "scraper.initialize")
                ELSE IF storageHere /\ outcome = "storageThrows"
                THEN FailJob(j0, "storage.initialize")
                ELSE IF job.mode = "single"
                THEN [j0 EXCEPT !.status = "scraping", !.pc = "scrape",
                                !.i = 1]
                ELSE [j0 EXCEPT !.status = "discovering", !.pc = "discover"]
      /\ IF storageHere THEN initialize(outcome)
         ELSE UNCHANGED <<articles, index, lastCall>>
      /\ UNCHANGED <<storageImpl, indexFile, summaryFile, folders,
                     articleJson, saveCalls, scrape, jobsStarted, mediaVars,
                     discovery, concurrent, archiver>>

DiscoverOutcomes == {"ok", "scrapeWebsiteThrows", "storageThrows"}

\* Bulk mode: scraper.scrapeWebsite(url) up to the for loop. part_001 throws
\* on an empty list and constructs its StorageManager here.
Discover(links, outcome) ==
  LET storageHere ==
        job.serverImpl = "part_001" /\ outcome # "scrapeWebsiteThrows"
                                    /\ links # << >>
      found == [job EXCEPT !.links = links, !.discovered = TRUE]
  IN  /\ job.pc = "discover"
      /\ job' =
           IF outcome = "scrapeWebsiteThrows"
           THEN FailJob(job, "scrapeWebsite")
           ELSE IF job.serverImpl = "server.js"
           THEN NextCandidate([found EXCEPT !.status = "scraping"])
           ELSE IF links = << >>
           THEN FailJob(found, "No articles found on this page")
           ELSE IF outcome = "storageThrows"
           THEN FailJob(found, "storage.initialize")
           ELSE NextCandidate(found)
      /\ IF storageHere THEN initialize(outcome)
         ELSE UNCHANGED <<articles, index, lastCall>>
      /\ UNCHANGED <<storageImpl, indexFile, summaryFile, folders, articleJson, saveCalls,
                     scrape, jobsStarted, mediaVars, discovery, concurrent, archiver>>

\* scraper.scrapeArticle(articleUrl, ...) is called for the current link.
BeginCandidate ==
  /\ job.pc = "scrape"
  /\ ScrapeArticleCall(job.links[job.i])
  /\ job' = [job EXCEPT !.pc = "scraping", !.article = NoArticle,
                        !.dup = "", !.ops = {}]
  /\ UNCHANGED <<storeVars, jobsStarted, mediaVars, discovery, concurrent, archiver>>

\* One pass of the retry loop inside the job's scrapeArticle call.
JobAttempt ==
  \/ \E kind \in {"newPageThrows", "gotoThrows"} :
       AttemptStep(kind, NoArticle) /\ UNCHANGED <<storeVars, jobVars, mediaVars, discovery, concurrent, archiver>>
  \/ \E a \in JobExtractions(scrape.url) :
       AttemptStep("extracted", a) /\ UNCHANGED <<storeVars, jobVars, mediaVars, discovery, concurrent, archiver>>

\* scrapeArticle has returned: the null test and the duplicate test. The
\* single mode of part_001 constructs its StorageManager here.
AfterScrape(outcome) ==
  LET lateInit == job.serverImpl = "part_001" /\ job.mode = "single"
      article == scrape.article
      idx == IF lateInit THEN loadIndex(indexFile) ELSE index
      dup == isDuplicate(idx, article)
      j == [job EXCEPT !.article = article,
                       !.dup = IF dup THEN "true" ELSE "false",
                       !.ops = {"isDuplicate"}]
  IN  /\ job.pc = "scraping"
      /\ scrape.pc = "returned"
      /\ scrape' = ScrapeIdle
      /\ IF scrape.result = "null"
         THEN /\ job' = IF job.mode = "single"
                        THEN CandidateThrows(job, "scrapeArticle")
                        ELSE NextCandidate(
                               [job EXCEPT !.articlesFailed =
                                  IF job.serverImpl = "server.js"
                                  THEN @ + 1 ELSE @])
              /\ UNCHANGED <<articles, index, lastCall>>
         ELSE IF lateInit /\ outcome = "storageThrows"
         THEN /\ job' = FailJob([job EXCEPT !.article = article],
                                "storage.initialize")
              /\ initialize(outcome)
         ELSE /\ job' = IF job.mode = "bulk" /\ dup THEN NextCandidate(j)
                        ELSE [j EXCEPT !.pc = "download"]
              /\ articles' = IF lateInit THEN << >> ELSE articles
              /\ index' = idx
              /\ lastCall' = [op |-> "isDuplicate",
                              result |-> IF dup THEN "true" ELSE "false"]
      /\ UNCHANGED <<storageImpl, indexFile, summaryFile, folders, articleJson, saveCalls,
                     jobsStarted, mediaVars, discovery, concurrent, archiver>>

\* downloadMedia(article, id): fs.mkdir of the staging folder stands outside
\* every try of the method; the downloads themselves are caught one by one.
AcquireOutcomes == {"returned", "mkdirThrows"}

\* Media acquisition for the current article: downloader.downloadMedia and,
\* in server.js, downloader.saveThumbnail when the article has a screenshot.
Acquire(outcome, screenshot) ==
  LET thumb == IF /\ outcome = "returned"
                  /\ job.serverImpl = "server.js"
                  /\ screenshot
               THEN {"saveThumbnail"} ELSE {}
      j == [job EXCEPT !.ops = @ \cup {"downloadMedia"} \cup thumb]
  IN  /\ job.pc = "download"
      /\ job' = IF outcome = "mkdirThrows"
                THEN CandidateThrows(j, "downloadMedia")
                ELSE [j EXCEPT !.pc = "save",
                               !.status = IF /\ j.serverImpl = "part_001"
                                             /\ j.mode = "single"
                                          THEN "saving" ELSE @]
      /\ UNCHANGED <<storeVars, scrape, jobsStarted, mediaVars, discovery, concurrent, archiver>>

\* storage.saveArticle(article, mediaFiles) for the current article.
Save(failAt) ==
  LET j == [job EXCEPT !.ops = @ \cup {"saveArticle"}]
  IN  /\ job.pc = "save"
      /\ saveArticle(job.article, failAt)
      /\ job' = IF failAt # "none" THEN CandidateThrows(j, "saveArticle")
                ELSE IF j.mode = "single" THEN [j EXCEPT !.pc = "export"]
                ELSE NextCandidate([j EXCEPT !.articlesScraped = @ + 1])
      /\ UNCHANGED <<storageImpl, indexFile, summaryFile, scrape, jobsStarted, mediaVars, discovery, concurrent, archiver>>

\* storage.saveAllFormats() and the end of the job.
Export(failAt) ==
  LET j == [job EXCEPT !.exports = @ + 1]
  IN
  /\ job.pc = "export"
  /\ saveAllFormats(failAt)
  /\ job' = IF failAt # "none" THEN FailJob(j, "saveAllFormats")
            ELSE close([j EXCEPT
                          !.status = "completed",
                          !.pc = "done",
                          !.articlesScraped =
                            IF j.serverImpl = "server.js" /\ j.mode = "single"
                            THEN 1 ELSE @])
  /\ UNCHANGED <<storageImpl, articles, index, folders, articleJson,
                 saveCalls, scrape, jobsStarted, mediaVars, discovery, concurrent, archiver>>

InitStore ==
  /\ scrape = ScrapeIdle
  /\ job = NoJob
  /\ jobsStarted = 0
  /\ storageImpl \in StorageImpls
  /\ articles = << >>
  /\ index = EmptyIndex
  /\ indexFile = MissingFile
  /\ summaryFile = NoSummary
  /\ folders = {}
  /\ articleJson = {}
  /\ lastCall = [op |-> "initialize", result |-> "returned"]
  /\ saveCalls = 0
  /\ downloader = NoDownloader
  /\ downloads = [u \in MediaURLs |-> 0]
  /\ tempDirs = {}
  /\ tempFiles = {}
  /\ entryMedia = {}
  /\ mediaFiles = EmptyManifest
  /\ mediaCall = NoMediaCall
  /\ mediaCalls = 0
  /\ discovery = NoDiscovery
  /\ concurrent = NoConcurrent
  /\ archiver = NoArchiver

NextStore ==
  \/ Initialize
  \/ \E a \in DedupArticles : IsDuplicateCall(a)
  \/ \E a \in DedupArticles, f \in SaveFailPoints : SaveArticle(a, f)
  \/ \E f \in ExportFailPoints : SaveAllFormats(f)

\* Any sequence of calls on the storage API, across restarts.
SpecStore == InitStore /\ [][NextStore]_vars

\* saveArticle returning normally.
CommitArticle(article) == SaveArticle(article, "none")

NextFolders == \E a \in FolderArticles : CommitArticle(a)

\* Any sequence of commits on one StorageManager.
SpecFolders == InitStore /\ [][NextFolders]_vars

NextScrape ==
  \/ \E u \in URLs :
       ScrapeArticleCall(u) /\ UNCHANGED <<storeVars, jobVars, mediaVars, discovery, concurrent, archiver>>
  \/ Attempt

\* scrapeArticle called again and again on one NewspaperScraper; every await
\* returns or throws, so a pass of the loop that can run does run.
SpecScrape == InitStore /\ [][NextScrape]_vars /\ WF_vars(Attempt)

NextCalls ==
  \/ InitializeAgain
  \/ \E a \in DedupArticles, f \in SaveFailPoints : SaveArticle(a, f)
  \/ \E f \in ExportFailPoints : SaveAllFormats(f)

\* Any sequence of initialize, saveArticle and saveAllFormats calls on one
\* StorageManager.
SpecCalls == InitStore /\ [][NextCalls]_vars

\* The rename failures explored: none, or one file.
MoveFailSets == {{}, {<<"image", 1>>}, {<<"video", 1>>}}

\* The downloader does not touch the archive: one revision of the
\* StorageManager stands for both.
InitMedia == InitStore /\ storageImpl = "part_005"

NextMedia ==
  \/ \E impl \in DownloaderImpls :
       NewDownloader(impl) /\ UNCHANGED <<storeVars, scrape, jobVars, discovery, concurrent, archiver>>
  \/ \E a \in MediaArticles, kind \in IdKinds, refs \in MediaRefs,
        fails \in FailSets, outcome \in AcquireOutcomes :
       DownloadMediaCall(a, kind, refs, fails, outcome)

\* Any sequence of downloadMedia calls, on one MediaDownloader or on a new
\* one per call.
SpecMedia == InitMedia /\ [][NextMedia]_vars

NextCommit ==
  \/ \E impl \in DownloaderImpls :
       NewDownloader(impl) /\ UNCHANGED <<storeVars, scrape, jobVars, discovery, concurrent, archiver>>
  \/ \E a \in MediaArticles, kind \in IdKinds, refs \in MediaRefs :
       StageMedia(a, kind, refs)
  \/ \E failAt \in SaveFailPoints, moveFails \in MoveFailSets :
       SaveArticleMedia(failAt, moveFails)

\* Articles acquired and committed with their media, one after the other.
SpecCommit == InitStore /\ [][NextCommit]_vars

NextExport ==
  \/ \E impl \in DownloaderImpls :
       NewDownloader(impl) /\ UNCHANGED <<storeVars, scrape, jobVars, discovery, concurrent, archiver>>
  \/ \E a \in MediaArticles, kind \in IdKinds, refs \in MediaRefs :
       StageMedia(a, kind, refs)
  \/ \E failAt \in SaveFailPoints : SaveArticleMedia(failAt, {})
  \/ \E f \in ExportFailPoints : SaveAllFormats(f)

\* Articles acquired and committed with their media, and exports of the
\* aggregate in between.
SpecExport == InitStore /\ [][NextExport]_vars

\* A StorageManager constructed over an archive directory whose index.json
\* is any of IndexFiles; initialize has not run yet.
InitLoad ==
  /\ scrape = ScrapeIdle
  /\ job = NoJob
  /\ jobsStarted = 0
  /\ storageImpl \in StorageImpls
  /\ articles = << >>
  /\ index = EmptyIndex
  /\ indexFile \in IndexFiles
  /\ summaryFile = NoSummary
  /\ folders = {}
  /\ articleJson = {}
  /\ lastCall = [op |-> "constructor", result |-> "returned"]
  /\ saveCalls = 0
  /\ downloader = NoDownloader
  /\ downloads = [u \in MediaURLs |-> 0]
  /\ tempDirs = {}
  /\ tempFiles = {}
  /\ entryMedia = {}
  /\ mediaFiles = EmptyManifest
  /\ mediaCall = NoMediaCall
  /\ mediaCalls = 0
  /\ discovery = NoDiscovery
  /\ concurrent = NoConcurrent
  /\ archiver = NoArchiver

NextLoad ==
  \/ Initialize
  \/ \E a \in DedupArticles : IsDuplicateCall(a)

\* initialize and the duplicate test over whatever index.json holds.
SpecLoad == InitLoad /\ [][NextLoad]_vars

NextDiscover ==
  \E impl \in ScraperImpls : ScrapeWebsite(impl)

\* Link discovery on a listing page.
SpecDiscover == InitStore /\ [][NextDiscover]_vars

NextConcurrent ==
  \/ \E k \in JobIds : ConcurrentStart(k)
  \/ \E k \in JobIds, a \in ConcurrentArticles : ConcurrentCommit(k, a)
  \/ \E k \in JobIds : ConcurrentExport(k)

\* Bulk jobs on one domain, started whenever they are posted.
SpecConcurrent == InitStore /\ [][NextConcurrent]_vars

NextArchiver ==
  \/ \E d \in DownloadIds, u \in AssetURLs : ArchiverDownloadFile(d, u)
  \/ \E d \in DownloadIds, outcome \in DownloadOutcomes :
       ArchiverDownloadFileEnds(d, outcome)

\* The downloadFile calls of one run of the SiteArchiver.
SpecArchiver == InitStore /\ [][NextArchiver]_vars

Init == InitStore

Next ==
  \/ \E server \in ServerImpls, mode \in Modes, url \in JobURLs :
       PostJob(server, mode, url)
  \/ \E outcome \in StartOutcomes : StartJob(outcome)
  \/ \E links \in LinkLists, outcome \in DiscoverOutcomes :
       Discover(links, outcome)
  \/ BeginCandidate
  \/ JobAttempt
  \/ \E outcome \in {"ok", "storageThrows"} : AfterScrape(outcome)
  \/ \E outcome \in AcquireOutcomes, screenshot \in BOOLEAN :
       Acquire(outcome, screenshot)
  \/ \E failAt \in SaveFailPoints : Save(failAt)
  \/ \E failAt \in ExportFailPoints : Export(failAt)

\* Jobs posted to the server one after the other, each with its own
\* NewspaperScraper and StorageManager over the same archive directory.
Spec == Init /\ [][Next]_vars

\* The steps of a job that has been posted: each is the return or the throw
\* of an awaited call.
Run ==
  \/ \E outcome \in StartOutcomes : StartJob(outcome)
  \/ \E links \in LinkLists, outcome \in DiscoverOutcomes :
       Discover(links, outcome)
  \/ BeginCandidate
  \/ JobAttempt
  \/ \E outcome \in {"ok", "storageThrows"} : AfterScrape(outcome)
  \/ \E outcome \in AcquireOutcomes, screenshot \in BOOLEAN :
       Acquire(outcome, screenshot)
  \/ \E failAt \in SaveFailPoints : Save(failAt)
  \/ \E failAt \in ExportFailPoints : Export(failAt)

NextLive ==
  \/ \E server \in ServerImpls, mode \in Modes, url \in JobURLs :
       jobsStarted < MaxLiveJobs /\ PostJob(server, mode, url)
  \/ Run

\* Jobs when every awaited browser, network and file-system call returns or
\* throws: a step of the job that can be taken is taken.
SpecLive == Init /\ [][NextLive]_vars /\ WF_vars(Run)

\* =================================================================== claims
\* Letter case and whitespace as the claims speak of them.
SameLetter(c, d) == c = d \/ {c, d} \in {{"A", "a"}, {"B", "b"}}

SameLetters(x, y) ==
  Len(x) = Len(y) /\ \A i \in 1..Len(x) : SameLetter(x[i], y[i])

\* The windows <<i, j>> of x outside which x holds whitespace only.
Windows(x) ==
  {w \in (1..Len(x) + 1) \X (0..Len(x)) :
     /\ w[1] <= w[2] + 1
     /\ \A k \in 1..Len(x) : (k < w[1] \/ k > w[2]) => x[k] = " "}

\* x and y differ only in letter case or in leading/trailing whitespace.
DiffersInCaseOrOuterSpace(x, y) ==
  \E v \in Windows(x), w \in Windows(y) :
    SameLetters(SubSeq(x, v[1], v[2]), SubSeq(y, w[1], w[2]))

WithoutSpaces(x) == SelectSeq(x, LAMBDA c : c # " ")

\* x and y differ only in letter case or in whitespace, wherever it stands.
DiffersInCaseOrSpace(x, y) == SameLetters(WithoutSpaces(x), WithoutSpaces(y))

\* The lower-cased, trimmed titles of the index that title matches.
TitleInIndex(idx, title) ==
  \E n \in idx.titles :
    /\ DiffersInCaseOrOuterSpace(n, title)
    /\ n = toLowerCase(n)
    /\ n = << >> \/ (n[1] # " " /\ n[Len(n)] # " ")

Query(u, t) == [url |-> u, title |-> t, publishDate |-> Midnight15]

\* C3: isDuplicate(article) is true exactly when article.url is a member of
\* index.urls or the lower-cased, trimmed title is a member of index.titles,
\* and a call of isDuplicate leaves the index as it was.
C3_IsDuplicateIff ==
  /\ [](\A u \in URLs, t \in Titles :
          isDuplicate(index, Query(u, t))
            <=> (u \in index.urls \/ TitleInIndex(index, t)))
  /\ [][lastCall'.op = "isDuplicate" => index' = index]_vars

\* A call of isDuplicate has answered true in a store where some article is
\* a duplicate by its title alone, spelled unlike every committed title.
C3_Witness ==
  /\ lastCall = [op |-> "isDuplicate", result |-> "true"]
  /\ \E u \in URLs, t \in Titles :
       /\ u \notin index.urls
       /\ \A i \in 1..Len(articles) : articles[i].title # t
       /\ isDuplicate(index, Query(u, t))

\* C4 as claimed: once an article titled T is committed, an article with
\* another URL whose title differs from T only in letter case or in
\* whitespace is a duplicate.
C4_AnyWhitespace ==
  \A i \in 1..Len(articles), u \in URLs, t \in Titles :
    (u # articles[i].url /\ DiffersInCaseOrSpace(t, articles[i].title))
      => isDuplicate(index, Query(u, t))

\* C4 amended: once an article titled T is committed, an article with
\* another URL whose title differs from T only in letter case or in leading
\* and trailing whitespace is a duplicate.
C4_OuterWhitespace ==
  \A i \in 1..Len(articles), u \in URLs, t \in Titles :
    (u # articles[i].url /\ DiffersInCaseOrOuterSpace(t, articles[i].title))
      => isDuplicate(index, Query(u, t))

\* One article is committed, and another URL with a differently spelled
\* title of the same letters is reported as its duplicate.
C4_Witness ==
  /\ Len(articles) = 1
  /\ lastCall = [op |-> "isDuplicate", result |-> "true"]
  /\ \E u \in URLs, t \in Titles :
       /\ u # articles[1].url
       /\ t # articles[1].title
       /\ DiffersInCaseOrOuterSpace(t, articles[1].title)
       /\ isDuplicate(index, Query(u, t))

\* C5: a saveArticle call that throws leaves index.urls, index.titles and
\* the entry list unchanged, so no article becomes a duplicate by it.
C5_FailedSaveKeepsIndex ==
  [][(lastCall'.op = "saveArticle" /\ lastCall'.result = "threw")
       => /\ index' = index
          /\ articles' = articles
          /\ \A u \in URLs, t \in Titles :
               isDuplicate(index', Query(u, t))
                 = isDuplicate(index, Query(u, t))]_vars

\* saveArticle threw after article.json was written, with nothing in the
\* index or the entry list.
C5_Witness ==
  /\ lastCall = [op |-> "saveArticle", result |-> "threw"]
  /\ articleJson # {}
  /\ articles = << >>
  /\ index = EmptyIndex

\* C9 as claimed: no two committed articles with different URLs share an
\* entry folder.
C9_FoldersDistinct ==
  \A i, j \in 1..Len(articles) :
    articles[i].url # articles[j].url
      => articles[i].folderPath # articles[j].folderPath

SameDay(d, e) == d.valid /\ e.valid /\ d.day = e.day

NotMidnight(d) == HasTimeOfDay(d) \/ d.ms # 0

\* The folder names of e and f differ only in a timestamp suffix, under the
\* same day partition.
DifferOnlyInTimestamp(e, f) ==
  /\ e.folderPath # f.folderPath
  /\ e.folderPath.day = f.folderPath.day
  /\ e.folderPath.sanitizedTitle = f.folderPath.sanitizedTitle
  /\ e.folderPath.uniqueId.kind = "timestamp"
  /\ f.folderPath.uniqueId.kind = "timestamp"

C6_ValidityGate ==
  /\ [](scrape.result = "article"
          => scrape.article.contentLength >= MinContentLength)
  /\ [][scrape'.attempts = scrape.attempts + 1 =>
          IF /\ scrape'.last.kind = "extracted"
             /\ scrape'.last.contentLength >= MinContentLength
          THEN /\ scrape'.pc = "returned"
               /\ scrape'.result = "article"
               /\ scrape'.article.contentLength = scrape'.last.contentLength
               /\ scrape'.retries = scrape.retries
          ELSE /\ scrape'.retries = scrape.retries + 1
               /\ scrape'.result # "article"
               /\ scrape'.retries < retryAttempts
                    => /\ scrape'.pc = "loop"
                       /\ Len(scrape'.delays) = Len(scrape.delays) + 1
               /\ scrape'.retries >= retryAttempts
                    => /\ scrape'.pc = "returned"
                       /\ scrape'.result = "null"]_vars

\* The first attempt extracted the sentinel and the call is on its way to a
\* second attempt, one retry used.
C6_Witness ==
  /\ scrape.pc = "loop"
  /\ scrape.attempts = 1
  /\ scrape.retries = 1
  /\ scrape.last = [kind |-> "extracted", contentLength |-> SentinelLength]

Count(seq, x) == Cardinality({i \in 1..Len(seq) : seq[i] = x})

AcquireOrCommit == {"downloadMedia", "saveThumbnail", "saveArticle"}

\* C1: in single and in bulk mode, in one process or after a restart that
\* reloaded the exported index, an article whose URL is already committed
\* (its URL is in the index) is reported as a duplicate, and no step taken
\* for it runs saveArticle, creates an entry folder or adds an entry.
C1_Idempotent ==
  /\ [](job.pc \in {"download", "save"} /\ job.article.url \in index.urls
          => job.dup = "true")
  /\ [][(job.pc \in {"download", "save"} /\ job.article.url \in index.urls)
          => /\ saveCalls' = saveCalls
             /\ folders' = folders
             /\ articleJson' = articleJson
             /\ articles' = articles]_vars

\* C2: when isDuplicate answered true for the extracted article, neither
\* downloadMedia nor saveThumbnail nor saveArticle is executed for it, in
\* bulk and in single mode.
C2_DuplicateSkipsAcquireAndCommit ==
  job.dup = "true" => job.ops \cap AcquireOrCommit = {}

\* C8: in a bulk run, an exhausted retry budget or an exception thrown by
\* media acquisition or by commit never ends the run as failed: the run
\* leaves the candidate for its next step, the next candidate or the export.
C8_FailureIsolation ==
  /\ []((job.mode = "bulk" /\ job.status = "failed")
          => job.error \notin {"scrapeArticle", "downloadMedia",
                               "saveArticle"})
  /\ [][(/\ job.mode = "bulk"
          /\ job.pc \in {"scraping", "download", "save"}
          /\ job'.pc # job.pc)
          => job'.pc \in {"download", "save", "scrape", "export"}]_vars


\* A downloadMedia call returns in this step.
DownloadMediaReturns ==
  /\ mediaCalls' = mediaCalls + 1
  /\ mediaCall'.result = "returned"

\* The manifest lists the asset of this source URL.
InManifest(manifest, url) ==
  \/ \E k \in 1..Len(manifest.images) : manifest.images[k].originalUrl = url
  \/ \E k \in 1..Len(manifest.videos) : manifest.videos[k].originalUrl = url

\* The source URLs an article refers to.
RefURLs(refs) ==
  {refs.images[i].url : i \in 1..Len(refs.images)}
  \cup {refs.videos[i].url : i \in 1..Len(refs.videos)}

\* C11 as claimed: when downloadMedia meets a reference to a URL that this
\* downloader has already downloaded, the file is not fetched again and the
\* manifest of the referencing article still lists the asset.
C11_SecondReferenceKeepsAsset ==
  [][DownloadMediaReturns =>
       \A u \in RefURLs(mediaCall'.refs) :
         hashUrl(u) \in downloader.downloadedHashes =>
           /\ downloads'[u] = downloads[u]
           /\ InManifest(mediaFiles', u)]_vars

\* The source URLs downloadMedia hands to downloadFile: not the embeds.
FileURLs(refs) ==
  {refs.images[i].url : i \in 1..Len(refs.images)}
  \cup {refs.videos[i].url : i \in {k \in 1..Len(refs.videos) :
                                      refs.videos[k].type # "embed"}}

\* C18: when downloadMedia returns, an asset whose download threw is not in
\* the manifest and its URL is not in downloadedHashes; an asset that was
\* fetched and written is in the manifest; and a URL that is not in
\* downloadedHashes when it is referenced is attempted, whatever happened to
\* it before.
C18_FailedDownloadNonFatal ==
  [][DownloadMediaReturns =>
       /\ \A u \in mediaCall'.failed :
            /\ ~InManifest(mediaFiles', u)
            /\ hashUrl(u) \notin downloader'.downloadedHashes
       /\ \A u \in FileURLs(mediaCall'.refs) :
            /\ downloads'[u] = downloads[u] + 1 => InManifest(mediaFiles', u)
            /\ hashUrl(u) \notin downloader.downloadedHashes =>
                 \/ downloads'[u] = downloads[u] + 1
                 \/ u \in mediaCall'.failed]_vars

\* downloadMedia has returned a manifest that lists one asset while the
\* download of another one threw.
C18_Witness ==
  /\ mediaCall.op = "downloadMedia"
  /\ mediaCall.result = "returned"
  /\ mediaCall.failed # {}
  /\ mediaFiles.images # << >>

ExportReturned == [op |-> "saveAllFormats", result |-> "returned"]

\* C12 as claimed: when saveAllFormats has returned, the exported
\* totalArticles is at least the number of URLs in the persisted index.
C12_AggregateCoversArchive ==
  lastCall = ExportReturned =>
    /\ summaryFile.totalArticles >= Cardinality(indexFile.urls)
    /\ indexFile.totalArticles >= Cardinality(indexFile.urls)

\* C13: a saveAllFormats that returns right after a saveAllFormats that
\* returned writes the same summary counts and the same index file, and
\* leaves the entry list and the dedup index as they were.
C13_ExportTwice ==
  [][(lastCall = ExportReturned /\ lastCall' = ExportReturned) =>
       /\ summaryFile' = summaryFile
       /\ indexFile' = indexFile
       /\ articles' = articles
       /\ index' = index]_vars

\* An export has returned with an entry that lists images and videos: the
\* state in which the second export runs.
C13_Witness ==
  /\ lastCall = ExportReturned
  /\ summaryFile.exists
  /\ summaryFile.totalArticles > 0
  /\ summaryFile.totalImages > 0
  /\ summaryFile.totalVideos > 0
  /\ summaryFile.totalWords > 0

\* C14: index.json changes only in a saveAllFormats step, never in a
\* saveArticle step; and a store initialised over the archive holds exactly
\* the URLs and titles of index.json, so that isDuplicate is false for every
\* committed article whose URL and title the last export did not write.
C14_IndexWrittenByExportOnly ==
  /\ [][indexFile' # indexFile => lastCall'.op = "saveAllFormats"]_vars
  /\ [][lastCall'.op = "saveArticle" => indexFile' = indexFile]_vars
  /\ [](lastCall.op = "initialize" =>
          \A d \in articleJson :
            (/\ d.url \notin indexFile.urls
             /\ normalizedTitle(d.title) \notin indexFile.titles)
            => ~isDuplicate(index, d))

\* A store initialised after a commit that no export followed: the article
\* is on disk and isDuplicate does not know it.
C14_Witness ==
  /\ lastCall = [op |-> "initialize", result |-> "returned"]
  /\ \E d \in articleJson : ~isDuplicate(index, d)

\* saveArticle(article, mediaFiles) has returned for the manifest of the last
\* downloadMedia.
CommitReturned == mediaCall.op = "saveArticle" /\ mediaCall.result = "returned"

\* The manifest entries that stand for a file: the images and the videos
\* that are not embeds.
FileEntries(manifest) ==
  {manifest.images[i].localPath : i \in 1..Len(manifest.images)}
  \cup {manifest.videos[i].localPath : i \in
          {k \in 1..Len(manifest.videos) :
             manifest.videos[k].type # "embed"}}

\* The path is that of a file that exists in the media folder of the entry
\* of the committed article.
InEntryMedia(path) ==
  /\ path.at = "entry"
  /\ path.entry = articleFolder(storageImpl, mediaCall.article)
  /\ path \in entryMedia

\* C15 as claimed: after a commit in which no rename failed, every image
\* and every video file of the manifest is in the media folder of the entry
\* and the manifest records that path.
C15_CommitMovesAllMedia ==
  (CommitReturned /\ mediaCall.moveFails = {}) =>
    \A path \in FileEntries(mediaFiles) : InEntryMedia(path)

\* C16 as claimed: after a commit the staging folder that downloadMedia made
\* for the article does not exist.
C16_StagingFolderRemoved ==
  CommitReturned => mediaCall.tempMediaDir \notin tempDirs

WellFormed(file) ==
  /\ file.exists
  /\ file.top = "object"
  /\ file.urlsType = "array"
  /\ file.titlesType = "array"

\* C19 as claimed: initialize returns, and unless index.json holds lists for
\* both urls and titles the store starts with empty urls and titles.
C19_CorruptIndexStartsEmpty ==
  lastCall.op = "initialize" =>
    /\ lastCall.result = "returned"
    /\ ~WellFormed(indexFile) => index = EmptyIndex

\* The registrable domain of a host name.
RegistrableDomain(host) ==
  IF host \in {"example.com", "www.example.com", "m.example.com"}
  THEN "example.com" ELSE host

\* The listing page of the example: the headline, the tag page, the login
\* page and the image.
ExampleListing ==
  <<AnchorTo(HeadlineURL, FALSE), AnchorTo(TagURL, TRUE),
    AnchorTo(LoginURL, FALSE), AnchorTo(ImageURL, FALSE)>>

InLinks(url) == \E k \in 1..Len(discovery.links) : discovery.links[k] = url

NoLinkTwice ==
  \A a, b \in 1..Len(discovery.links) :
    a # b => discovery.links[a] # discovery.links[b]

Collected(impl, anchor) ==
  \/ impl = "part_006"
  \/ anchor.markup
  \/ \E k \in 1..Len(anchor.url.segs) :
       /\ anchor.url.segs[k] \in {"article", "news", "story", "post"}
       /\ (k < Len(anchor.url.segs) \/ anchor.url.slash)

\* The host is that of the listing page; part_006 ignores a leading www.
SameHost(impl, host) ==
  \/ host = BaseURL.host
  \/ impl = "part_006" /\ host = "www.example.com"

C21_EmptyDiscoveryNotFailed ==
  [][(/\ job.pc = "discover"
      /\ job'.discovered
      /\ job'.links = << >>) => job'.status # "failed"]_vars

\* C22: a job ends in the failed state only if initializing the page
\* fetcher failed.
C22_OnlyLaunchIsFatal ==
  job.status = "failed" => job.error = "scraper.initialize"

\* The status tokens of the specification.
StatusTokens ==
  {"initializing", "discovering", "scraping", "saving", "completed", "failed"}

\* C23: whenever a job exists, the status it publishes is one of
\* initializing, discovering, scraping, saving, completed, failed.
C23_StatusIsAToken == job.pc # "none" => job.status \in StatusTokens

\* A job of part_001, whose job object is created with status 'started',
\* waits for the browser and publishes 'initializing'.
C23_Witness ==
  /\ job.serverImpl = "part_001"
  /\ job.pc = "launch"
  /\ job.status = "initializing"

\* C28: a bulk job whose link discovery has returned executes saveAllFormats
\* exactly once before it ends, and never more than once.
C28_ExportExactlyOnce ==
  (job.mode = "bulk" /\ job.discovered) =>
    /\ job.exports <= 1
    /\ job.pc = "done" => job.exports = 1
    /\ job.status = "completed" => job.exports = 1

\* C29: every posted job eventually ends, completed or failed; when it has
\* ended its browser is not open; and the status of a job that has ended
\* does not change any more.
C29_JobEndsAndStaysEnded ==
  /\ (job.pc \notin {"none", "done"})
       ~> (job.pc = "done" /\ job.status \in {"completed", "failed"})
  /\ [](job.pc = "done" =>
          job.status \in {"completed", "failed"} /\ job.browser # "open")
  /\ [][(job.status \in {"completed", "failed"} /\ job'.pc # "launch")
          => job'.status = job.status]_vars

\* A job has failed after its browser was launched, and the browser is
\* closed.
C29_Witness ==
  /\ job.pc = "done"
  /\ job.status = "failed"
  /\ job.browser = "closed"

\* C25: when scrapeArticle has returned, with an article or with null, no
\* page it opened is still open, in either revision of the scraper.
C25_PagesClosed ==
  scrape.pc = "returned" =>
    \A impl \in ScraperImpls : scrape.openPages[impl] = 0

\* C26: after a commit that returned, the article.json of the entry records
\* the media paths that the entry in the in-memory entry list records.
C26_ArticleJsonMatchesEntry ==
  CommitReturned =>
    \E d \in articleJson :
      /\ d.folderPath = articles[Len(articles)].folderPath
      /\ d.mediaFiles = articles[Len(articles)].mediaFiles

\* C27: every entry of the in-memory entry list has its URL in index.urls
\* and its lower-cased, trimmed title in index.titles; and a call other than
\* initialize removes nothing from the two sets.
C27_EntriesAreIndexed ==
  /\ [](\A i \in 1..Len(articles) :
          /\ articles[i].url \in index.urls
          /\ normalizedTitle(articles[i].title) \in index.titles)
  /\ [][lastCall'.op # "initialize" =>
          /\ index.urls \subseteq index'.urls
          /\ index.titles \subseteq index'.titles]_vars

\* C24: nothing keeps jobs on one domain apart. Every job indexes its own
\* commits; while no export has run, a job's dedup index holds its own
\* commits only, never those of a job running beside it; and index.json and
\* articles.json are those of the job whose export ran last, whatever
\* another job had written.
C24_LastExportWins ==
  /\ \A k \in JobIds :
       LET m == concurrent.run[k]
       IN  /\ \A i \in 1..Len(m.articles) : m.articles[i].url \in m.index.urls
           /\ concurrent.writer = 0 /\ m.pc # "none" =>
                m.index.urls = {m.articles[i].url : i \in 1..Len(m.articles)}
           /\ concurrent.writer = k =>
                /\ m.pc = "done"
                /\ indexFile = saveIndex(m.index, m.articles)
                /\ concurrent.articlesFile = m.articles

\* Two jobs have run side by side and both have committed the article u1;
\* both have exported, and index.json lacks a URL that the job whose export
\* came first had committed and written.
C24_Witness ==
  /\ \A k \in JobIds :
       /\ concurrent.run[k].pc = "done"
       /\ \E i \in 1..Len(concurrent.run[k].articles) :
            concurrent.run[k].articles[i].url = "u1"
  /\ \E k \in JobIds :
       /\ concurrent.writer # k
       /\ ~(concurrent.run[k].index.urls \subseteq indexFile.urls)
  /\ Len(concurrent.articlesFile) = 1

\* C30: in one run of the SiteArchiver no asset URL is fetched more than
\* once, however the downloadFile calls interleave.
C30_FetchedAtMostOnce ==
  \A u \in AssetURLs : archiver.fetched[u] <= 1
====
